---- MODULE Spec2Model ----
(***************************************************************************)
(* A model of CS4701Bot (src/strategies.py): the iterative-deepening       *)
(* driver `search`, its nested functions ab_search, quiescence_search and  *)
(* get_c_time_left, the static evaluator `eval` with positionalValue, and  *)
(* the move orderer gen_moves.                                             *)
(*                                                                         *)
(* The rules engine (python-chess) is outside the repository.  In the      *)
(* search specification a position is the stack of moves pushed from the   *)
(* root of a finite game tree `game`, which answers the rules engine's     *)
(* queries (legal_moves, is_capture, is_check) and gives the value eval()  *)
(* has at each position.  eval and gen_moves themselves are modelled on    *)
(* piece placements and move lists in SpecEval and SpecGen.                *)
(*                                                                         *)
(* Time is counted in whole seconds; time() reads `now`.  Time limits are  *)
(* rationals [num, den], so base_time_left / 32.5 is exact.                *)
(***************************************************************************)
EXTENDS Integers, Sequences, FiniteSets, TLC

VARIABLES
    \* ---- inputs of search(board, time_limit, ...) ----
    game,            \* the game tree under the root position (rules engine)
    turn,            \* board.turn at the root: TRUE = white to move
    white_clock,     \* time_limit.white_clock
    black_clock,     \* time_limit.black_clock
    \* ---- locals of search ----
    pc,              \* position of the driver in search
    now,             \* the wall clock read by time()
    start_time,
    best_eval,
    depth_time,
    best_move,
    base_time_left,
    depth,           \* the loop variable d of the normal-mode loop
    timer_for_depth,
    result,          \* the move of the PlayResult returned
    \* ---- the recursion ----
    board,           \* self._board: the moves pushed since the root
    stack,           \* call frames of ab_search / quiescence_search
    ret,             \* the value the last finished call returned
    \* ---- history, for stating properties ----
    last_return,     \* how and where the last call returned
    aborted,         \* the time check fired in the current root search
    pushes,          \* board.push calls made so far
    root_calls,      \* the max depths of the root searches started so far
    \* ---- the evaluator's specification ----
    position,        \* a piece placement with the side to move
    eval_out,
    \* ---- the move orderer's specification ----
    movelist,        \* the rules engine's legal move list
    gen_out

searchVars == <<game, turn, white_clock, black_clock, pc, now, start_time,
                best_eval, depth_time, best_move, base_time_left, depth,
                timer_for_depth, result, board, stack, ret, last_return,
                aborted, pushes, root_calls>>
evalVars == <<position, eval_out>>
genVars == <<movelist, gen_out>>
idleVars == <<evalVars, genVars>>
vars == <<searchVars, evalVars, genVars>>

-----------------------------------------------------------------------------
(* Program constants *)

PAWN_VALUE == 100
KNIGHT_VALUE == 305
BISHOP_VALUE == 333
ROOK_VALUE == 563
QUEEN_VALUE == 950
MATE_VALUE == 100000
POS_MAX == 1000000
NEG_MAX == -1000000

\* self._maxdepth
maxdepth == 10
\* EXPECTED_MOVES = 32.5, as the fraction 65/2
EXPECTED_MOVES_NUM == 65
EXPECTED_MOVES_DEN == 2
\* the low-time threshold of `base_time_left <= 5`
LOW_TIME == 5
\* the depth and the time limit of the low-time search
LOW_TIME_DEPTH == 2
LOW_TIME_LIMIT == 100000

\* chess.Move.null()
NullMove == 0
\* Python's None (a clock that is not set, a function that returns nothing)
None == -1

(* Bounds of the model *)

\* the clock stops advancing here
MaxTime == 3

-----------------------------------------------------------------------------
(* The game tree: what the rules engine answers *)

RootNode == <<>>
MoveIds == {1, 2}
Nodes == {<<>>} \cup {<<a>> : a \in MoveIds}
                \cup {<<a, b>> : a \in MoveIds, b \in MoveIds}
KidNodes == {n \in Nodes : Len(n) = 1}
LeafNodes == {n \in Nodes : Len(n) = 2}

\* the values eval() takes in the tree
EvalVals == {-30, 40}

\* the heuristic of move i is hv * i: the engine's order reversed, kept (a
\* tie), or already sorted
HeurVals == {1, 0}

\* A game: kids[i] is the number of legal moves after root move i; sc the
\* value of eval() at each position; cr / ck whether the moves at the root /
\* below it are captures; chk whether a player without a legal move is in
\* check.
MkGame(kids, sc, cr, ck, chk, hv) ==
    [nmoves  |-> [n \in Nodes |->
                    IF n = RootNode THEN Len(kids)
                    ELSE IF Len(n) = 1 /\ n[1] <= Len(kids) THEN kids[n[1]]
                    ELSE 0],
     score   |-> sc,
     capture |-> [n \in Nodes |->
                    IF Len(n) = 1 THEN cr ELSE IF Len(n) = 2 THEN ck ELSE FALSE],
     check   |-> chk,
     heur    |-> [n \in Nodes |-> IF n = RootNode THEN 0 ELSE hv * n[Len(n)]]]

Shapes == {<<>>, <<0>>, <<2>>, <<0, 0>>, <<0, 2>>, <<2, 0>>, <<1, 2>>, <<2, 2>>}

\* every value pattern on the full tree, and every shape with a few patterns
Games ==
    {MkGame(<<2, 2>>, [n \in Nodes |-> IF Len(n) = 2 THEN lf[n]
                                        ELSE IF Len(n) = 1 THEN kd ELSE 10],
            cr, cr, FALSE, hv) :
        lf \in [LeafNodes -> EvalVals], kd \in EvalVals, cr \in BOOLEAN,
        hv \in HeurVals}
    \cup
    {MkGame(sh, [n \in Nodes |-> IF Len(n) = 1 THEN kv[n]
                                  ELSE IF Len(n) = 2 THEN -20 * n[2] ELSE 10],
            cr, ~cr, chk, hv) :
        sh \in Shapes, kv \in [KidNodes -> EvalVals],
        cr \in BOOLEAN, chk \in BOOLEAN, hv \in HeurVals}

\* list(self._board.legal_moves) at position n
legal_moves(n) == [i \in 1..game.nmoves[n] |-> i]
\* self._board.is_capture(mv) at position n
is_capture(n, mv) == game.capture[Append(n, mv)]
\* self._board.is_check() at position n
is_check(n) == game.nmoves[n] = 0 /\ game.check
\* self._board.turn at position n
turn_at(n) == IF Len(n) % 2 = 0 THEN turn ELSE ~turn
\* self.eval() at position n
eval_at(n) == game.score[n]

\* the clock values of time_limit, in seconds
Clocks == {None, 0, 5, 45}
TimeControls == [turn : BOOLEAN, white_clock : Clocks, black_clock : Clocks]
\* one time control with plenty of time and one that is low on time
MainControls ==
    {[turn |-> TRUE, white_clock |-> 45, black_clock |-> 5],
     [turn |-> FALSE, white_clock |-> 45, black_clock |-> 5]}
\* a few trees to go with every time control
MainGames ==
    {g \in Games : /\ g.nmoves[<<>>] = 2 /\ g.nmoves[<<1>>] = 0
                   /\ g.nmoves[<<2>>] = 2 /\ g.score[<<1>>] = 40
                   /\ g.score[<<2>>] = -30 /\ g.heur[<<1>>] = 0}
\* the calls of search that are explored: every tree with the main time
\* controls, and every time control with the main trees
Inputs == (Games \X MainControls) \cup (MainGames \X TimeControls)

-----------------------------------------------------------------------------
(* Helpers *)

Range(s) == {s[i] : i \in 1..Len(s)}

\* sorted(items, key=..., reverse=True), keys[i] being the key of items[i]:
\* descending, and stable (equal keys keep the order of the list)
SortedDesc(items, keys) ==
    LET Insert(idx, j) ==
            LET c == Cardinality({k \in 1..Len(idx) : keys[idx[k]] >= keys[j]})
            IN  SubSeq(idx, 1, c) \o <<j>> \o SubSeq(idx, c + 1, Len(idx))
        srt[n \in 0..Len(items)] ==
            IF n = 0 THEN <<>> ELSE Insert(srt[n - 1], n)
    IN  [i \in 1..Len(items) |-> items[srt[Len(items)][i]]]

\* a Python list of maxdepth + 1 entries indexed from 0; a negative index
\* counts from the end
PyList(v) == [i \in 0..maxdepth |-> v]
PyGet(list, i) == IF i < 0 THEN list[maxdepth + 1 + i] ELSE list[i]

\* a time limit as a fraction
Limit(num, den) == [num |-> num, den |-> den]
NoLimit == Limit(0, 1)
\* a time check that never fires
TimeNotChecked(elapsed, lim) == FALSE
\* `time() - start_time >= time_lim`
TimeUp(elapsed, lim) == elapsed * lim.den >= lim.num
\* a Python truth test of a clock value: None and 0 are false
Truthy(c) == c # None /\ c # 0

-----------------------------------------------------------------------------
(* The evaluator: positionalValue and eval, lines 107-274 *)

\* chess.PAWN .. chess.KING, chess.WHITE and chess.BLACK
PAWN == "pawn"
KNIGHT == "knight"
BISHOP == "bishop"
ROOK == "rook"
QUEEN == "queen"
KING == "king"
WHITE == TRUE
BLACK == FALSE

\* the tables, square 0 (a1) first; a Python list index i is i + 1 here
pawntable ==
    <<0, 0, 0, 0, 0, 0, 0, 0,
      5, 10, 10, -20, -20, 10, 10, 5,
      5, -5, -10, 0, 0, -10, -5, 5,
      0, 0, 0, 20, 20, 0, 0, 0,
      5, 5, 10, 25, 25, 10, 5, 5,
      10, 10, 20, 30, 30, 20, 10, 10,
      50, 50, 50, 50, 50, 50, 50, 50,
      100, 100, 100, 100, 100, 100, 100, 100>>

knighttable ==
    <<-50, -40, -30, -30, -30, -30, -40, -50,
      -40, -20, 0, 5, 5, 0, -20, -40,
      -30, 5, 10, 15, 15, 10, 5, -30,
      -30, 0, 15, 20, 20, 15, 0, -30,
      -30, 5, 15, 20, 20, 15, 5, -30,
      -30, 0, 10, 15, 15, 10, 0, -30,
      -40, -20, 0, 0, 0, 0, -20, -40,
      -50, -40, -30, -30, -30, -30, -40, -50>>

bishoptable ==
    <<-20, -10, -10, -10, -10, -10, -10, -20,
      -10, 5, 0, 0, 0, 0, 5, -10,
      -10, 10, 10, 10, 10, 10, 10, -10,
      -10, 0, 10, 10, 10, 10, 0, -10,
      -10, 5, 5, 10, 10, 5, 5, -10,
      -10, 0, 5, 10, 10, 5, 0, -10,
      -10, 0, 0, 0, 0, 0, 0, -10,
      -20, -10, -10, -10, -10, -10, -10, -20>>

rooktable ==
    <<0, 0, 0, 5, 5, 0, 0, 0,
      -5, 0, 0, 0, 0, 0, 0, -5,
      -5, 0, 0, 0, 0, 0, 0, -5,
      -5, 0, 0, 0, 0, 0, 0, -5,
      -5, 0, 0, 0, 0, 0, 0, -5,
      -5, 0, 0, 0, 0, 0, 0, -5,
      5, 10, 10, 10, 10, 10, 10, 5,
      0, 0, 0, 0, 0, 0, 0, 0>>

queentable ==
    <<-20, -10, -10, -5, -5, -10, -10, -20,
      -10, 0, 0, 0, 0, 0, 0, -10,
      -10, 5, 5, 5, 5, 5, 0, -10,
      0, 0, 5, 5, 5, 5, 0, -5,
      -5, 0, 5, 5, 5, 5, 0, -5,
      -10, 0, 5, 5, 5, 5, 0, -10,
      -10, 0, 0, 0, 0, 0, 0, -10,
      -20, -10, -10, -5, -5, -10, -10, -20>>

kingtable ==
    <<20, 30, 10, 0, 0, 10, 30, 20,
      20, 20, 0, 0, 0, 0, 20, 20,
      -10, -20, -20, -20, -20, -20, -20, -10,
      -20, -30, -30, -40, -40, -30, -30, -20,
      -30, -40, -40, -50, -50, -40, -40, -30,
      -30, -40, -40, -50, -50, -40, -40, -30,
      -30, -40, -40, -50, -50, -40, -40, -30,
      -30, -40, -40, -50, -50, -40, -40, -30>>

kingtableend ==
    <<-50, -30, -30, -30, -30, -30, -30, -50,
      -30, -30, 0, 0, 0, 0, -30, -30,
      -30, -10, 20, 30, 30, 20, -10, -30,
      -30, -10, 30, 40, 40, 30, -10, -30,
      -30, -10, 30, 40, 40, 30, -10, -30,
      -30, -10, 20, 30, 30, 20, -10, -30,
      -30, -20, -10, 0, 0, -10, -20, -30,
      -50, -40, -30, -20, -20, -30, -40, -50>>

\* positionalValue with the square kept as it is for both colours
positionalValueNoFlip(square, piece, color, endgame) ==
    CASE piece = PAWN -> pawntable[square + 1]
      [] piece = KNIGHT -> knighttable[square + 1]
      [] piece = BISHOP -> bishoptable[square + 1]
      [] piece = ROOK -> rooktable[square + 1]
      [] piece = QUEEN -> queentable[square + 1]
      [] piece = KING -> IF endgame THEN kingtableend[square + 1]
                         ELSE kingtable[square + 1]

\* positionalValue(square, piece, color, endgame)
positionalValue(square, piece, color, endgame) ==
    LET sq == IF color THEN square ELSE 63 - square
    IN  CASE piece = PAWN -> pawntable[sq + 1]
          [] piece = KNIGHT -> knighttable[sq + 1]
          [] piece = BISHOP -> bishoptable[sq + 1]
          [] piece = ROOK -> rooktable[sq + 1]
          [] piece = QUEEN -> queentable[sq + 1]
          [] piece = KING -> IF endgame THEN kingtableend[sq + 1]
                             ELSE kingtable[sq + 1]

\* self._board.pieces(piece, color): the squares of these pieces.  A position
\* is [pieces |-> a set of [sq, type, color], turn |-> the side to move].
pieces(pos, piece, color) ==
    {x.sq : x \in {y \in pos.pieces : y.type = piece /\ y.color = color}}

\* sum([positionalValue(i, piece, color, endgame) for i in squares])
RECURSIVE SumPositional(_, _, _, _)
SumPositional(squares, piece, color, endgame) ==
    IF squares = {} THEN 0
    ELSE LET i == CHOOSE x \in squares : TRUE
         IN  positionalValue(i, piece, color, endgame)
             + SumPositional(squares \ {i}, piece, color, endgame)

\* eval(), in half points: every term is doubled, so that the factor 1.5 on
\* the pawns' positional sum in an endgame is the integer 3
eval(pos) ==
    LET wps == pieces(pos, PAWN, WHITE)
        bps == pieces(pos, PAWN, BLACK)
        wns == pieces(pos, KNIGHT, WHITE)
        bns == pieces(pos, KNIGHT, BLACK)
        wbs == pieces(pos, BISHOP, WHITE)
        bbs == pieces(pos, BISHOP, BLACK)
        wrs == pieces(pos, ROOK, WHITE)
        brs == pieces(pos, ROOK, BLACK)
        wqs == pieces(pos, QUEEN, WHITE)
        bqs == pieces(pos, QUEEN, BLACK)
        wks == pieces(pos, KING, WHITE)
        bks == pieces(pos, KING, BLACK)
        whitematerial ==
            Cardinality(wns) * KNIGHT_VALUE + Cardinality(wbs) * BISHOP_VALUE
            + Cardinality(wrs) * ROOK_VALUE + Cardinality(wqs) * QUEEN_VALUE
        blackmaterial ==
            Cardinality(bns) * KNIGHT_VALUE + Cardinality(bbs) * BISHOP_VALUE
            + Cardinality(brs) * ROOK_VALUE + Cardinality(bqs) * QUEEN_VALUE
        whitepawns == Cardinality(wps) * PAWN_VALUE
        \* line 235 counts the white pawns
        blackpawns == Cardinality(wps) * PAWN_VALUE
        endgamew == Cardinality(wqs) = 0 \/ whitematerial < 1300
        endgameb == Cardinality(bqs) = 0 \/ blackmaterial < 1300
        endgame == endgamew /\ endgameb
        pawnfactor == IF endgame THEN 3 ELSE 2
        whiteeval ==
            2 * (whitematerial + whitepawns)
            + pawnfactor * SumPositional(wps, PAWN, WHITE, endgame)
            + 2 * SumPositional(wns, KNIGHT, WHITE, endgame)
            + 2 * SumPositional(wbs, BISHOP, WHITE, endgame)
            + 2 * SumPositional(wrs, ROOK, WHITE, endgame)
            + 2 * SumPositional(wqs, QUEEN, WHITE, endgame)
            + 2 * SumPositional(wks, KING, WHITE, endgame)
        blackeval ==
            2 * (blackmaterial + blackpawns)
            + pawnfactor * SumPositional(bps, PAWN, BLACK, endgame)
            + 2 * SumPositional(bns, KNIGHT, BLACK, endgame)
            + 2 * SumPositional(bbs, BISHOP, BLACK, endgame)
            + 2 * SumPositional(brs, ROOK, BLACK, endgame)
            + 2 * SumPositional(bqs, QUEEN, BLACK, endgame)
            + 2 * SumPositional(bks, KING, BLACK, endgame)
    IN  IF pos.turn THEN whiteeval - blackeval ELSE blackeval - whiteeval

-----------------------------------------------------------------------------
(* The move orderer: gen_moves, lines 282-322 *)

\* A move with what the board answers about it: [from, to, piece (the type of
\* piece_at(from_square)), castling, check (gives_check), capture, ep
\* (is_en_passant), captured (the type of piece_at(to_square), or "none")].

\* the branch of lines 299-312 for the piece on the destination square
CapturedValue(oppiece) ==
    CASE oppiece = PAWN -> PAWN_VALUE
      [] oppiece = KNIGHT -> KNIGHT_VALUE
      [] oppiece = BISHOP -> BISHOP_VALUE
      [] oppiece = ROOK -> ROOK_VALUE
      [] oppiece = QUEEN -> QUEEN_VALUE
      [] OTHER -> 0

\* heuristic(move), with self._board.turn = t
heuristic(move, t) ==
    IF move.castling THEN 200
    ELSE (IF move.check THEN 1000 ELSE 0)
         + (IF move.capture
            THEN (IF move.piece = PAWN /\ move.ep THEN PAWN_VALUE
                  ELSE CapturedValue(move.captured))
            ELSE 0)
         + (IF move.piece # KING
            THEN positionalValue(move.to, move.piece, t, FALSE)
                 - positionalValue(move.from, move.piece, t, FALSE)
            ELSE 0)

\* a sort that keeps one move for each heuristic value
SortedDescOnePerKey(items, keys) ==
    LET first == {i \in 1..Len(items) :
                    \A j \in 1..Len(items) : keys[j] = keys[i] => j >= i}
        IsFirst(m) == \E i \in first : items[i] = m
    IN  SelectSeq(SortedDesc(items, keys), IsFirst)

\* sorted(movelist, key=heuristic, reverse=True), line 322
SortMoves(items, keys) == SortedDesc(items, keys)

\* gen_moves() on the legal move list ml
gen_moves(ml, t) ==
    SortMoves(ml, [i \in 1..Len(ml) |-> heuristic(ml[i], t)])

-----------------------------------------------------------------------------
(* scoreEnd, the move generators, get_c_time_left *)

\* a mate score that grows with the ply
scoreEndPlyAdded(in_check, d) == IF in_check THEN -(MATE_VALUE + d) ELSE 0
\* scoreEnd(depth) at a position where the side to move is / is not in check
scoreEnd(in_check, d) == IF in_check THEN -MATE_VALUE + d ELSE 0

\* gen_moves() at position n: the legal moves sorted by the heuristic.  The
\* heuristic reads features of the position the game tree does not carry, so
\* the tree gives its value for each move; SpecGen models the heuristic.
gen_moves_at(n) ==
    SortMoves(legal_moves(n),
               [i \in 1..Len(legal_moves(n)) |-> game.heur[Append(n, i)]])

\* every legal move, capture or not
gen_moves_unfiltered(n) == legal_moves(n)
\* gen_moves_q(): the legal moves that are captures, in the engine's order
gen_moves_q(n) ==
    LET IsCap(mv) == is_capture(n, mv)
    IN  SelectSeq(legal_moves(n), IsCap)

\* no clock found
get_c_time_left_unset(t, wc, bc) == None
\* get_c_time_left(): falls through to the other clock, and to None
get_c_time_left(t, wc, bc) ==
    IF t /\ Truthy(wc) THEN wc
    ELSE IF Truthy(bc) THEN bc
    ELSE None

\* base_time_left / EXPECTED_MOVES
MoveBudget(base) == Limit(base * EXPECTED_MOVES_DEN, EXPECTED_MOVES_NUM)

\* line 419: (base/EXPECTED_MOVES - base + get_c_time_left())
\*             < depth_time[d-1] * sqrt(number of legal moves),
\* with both sides multiplied by EXPECTED_MOVES_NUM and squared
NotWorthIt(base, left, dt, nmoves) ==
    LET lhs == base * EXPECTED_MOVES_DEN - base * EXPECTED_MOVES_NUM
               + left * EXPECTED_MOVES_NUM
        rhs == dt * EXPECTED_MOVES_NUM
    IN  IF lhs < 0 THEN rhs >= 0
        ELSE lhs * lhs < rhs * rhs * nmoves

-----------------------------------------------------------------------------
(* Call frames *)

Frame(fn, d, md, alpha, beta, lim) ==
    [fn |-> fn, pc |-> "entry", d |-> d, md |-> md, alpha |-> alpha,
     beta |-> beta, time_lim |-> lim, moves |-> <<>>, i |-> 1,
     \* history: the board, alpha and the push count when the call was made
     entry |-> board, alpha0 |-> alpha, pushes0 |-> pushes]

Top == stack[Len(stack)]
Running == stack # <<>>
SetTop(f) == [stack EXCEPT ![Len(stack)] = f]

\* the top frame returns v, leaving the board as b
Return(v, how, b) ==
    /\ stack' = SubSeq(stack, 1, Len(stack) - 1)
    /\ ret' = v
    /\ last_return' = [fn |-> Top.fn, how |-> how, d |-> Top.d, md |-> Top.md,
                       alpha |-> Top.alpha0, beta |-> Top.beta, value |-> v,
                       entry |-> Top.entry, exit |-> b,
                       pushed |-> pushes - Top.pushes0,
                       aborted |-> (aborted \/ how = "break")]

NoReturn == [fn |-> "none", how |-> "none", d |-> 0, md |-> 0, alpha |-> 0,
             beta |-> 0, value |-> 0, entry |-> <<>>, exit |-> <<>>,
             pushed |-> 0, aborted |-> FALSE]

\* the root call ab_search(0, md, NEG_MAX, POS_MAX, lim)
RootCall(md, lim) ==
    /\ stack' = <<Frame("ab", 0, md, NEG_MAX, POS_MAX, lim)>>
    /\ aborted' = FALSE
    /\ root_calls' = Append(root_calls, md)

-----------------------------------------------------------------------------
(* The state when search is called *)

EvalIdle ==
    /\ position = [pieces |-> {}, turn |-> TRUE]
    /\ eval_out = [scores |-> <<>>, flip |-> "none"]
GenIdle ==
    /\ movelist = <<>>
    /\ gen_out = [done |-> FALSE, moves |-> <<>>]

InitSearch ==
    /\ \E in \in Inputs :
          /\ game = in[1]
          /\ turn = in[2].turn
          /\ white_clock = in[2].white_clock
          /\ black_clock = in[2].black_clock
    /\ pc = "start"
    /\ now = 0
    /\ start_time = 0
    /\ best_eval = PyList(0)
    /\ depth_time = PyList(0)
    /\ best_move = PyList(NullMove)
    /\ base_time_left = None
    /\ depth = 0
    /\ timer_for_depth = 0
    /\ result = NullMove
    /\ board = <<>>
    /\ stack = <<>>
    /\ ret = 0
    /\ last_return = NoReturn
    /\ aborted = FALSE
    /\ pushes = 0
    /\ root_calls = <<>>

Init == InitSearch /\ EvalIdle /\ GenIdle

-----------------------------------------------------------------------------
(* The driver: search, lines 332-436 *)

\* time passes; the clock is counted from the call of search
Tick ==
    /\ pc \notin {"start", "done", "fault"}
    /\ now < MaxTime
    /\ now' = now + 1
    /\ UNCHANGED <<game, turn, white_clock, black_clock, pc, start_time,
                   best_eval, depth_time, best_move, base_time_left, depth,
                   timer_for_depth, result, board, stack, ret, last_return,
                   aborted, pushes, root_calls>>
    /\ UNCHANGED idleVars

\* lines 332-337
Start ==
    /\ pc = "start"
    /\ start_time' = now
    /\ best_eval' = PyList(0)
    /\ depth_time' = PyList(0)
    /\ best_move' = PyList(NullMove)
    /\ board' = <<>>
    /\ pc' = "mode"
    /\ UNCHANGED <<game, turn, white_clock, black_clock, now, base_time_left,
                   depth, timer_for_depth, result, stack, ret, last_return,
                   aborted, pushes, root_calls>>
    /\ UNCHANGED idleVars

\* the low-time search under the per-move budget of the normal mode
LowTimeCallBudgeted == RootCall(LOW_TIME_DEPTH, MoveBudget(base_time_left'))
\* line 410: ab_search(0, 2, NEG_MAX, POS_MAX, 100000)
LowTimeCall == RootCall(LOW_TIME_DEPTH, Limit(LOW_TIME_LIMIT, 1))

\* lines 407-410: `None <= 5` raises TypeError
ChooseMode ==
    /\ pc = "mode"
    /\ base_time_left' = get_c_time_left(turn, white_clock, black_clock)
    /\ IF base_time_left' = None
       THEN /\ pc' = "fault"
            /\ UNCHANGED <<stack, aborted, root_calls>>
       ELSE IF base_time_left' <= LOW_TIME
       THEN /\ pc' = "low_time"
            /\ LowTimeCall
       ELSE /\ pc' = "for"
            /\ UNCHANGED <<stack, aborted, root_calls>>
    /\ depth' = 0
    /\ UNCHANGED <<game, turn, white_clock, black_clock, now, start_time,
                   best_eval, depth_time, best_move, timer_for_depth, result,
                   board, ret, last_return, pushes>>
    /\ UNCHANGED idleVars

\* line 411
LowTimeReturn ==
    /\ pc = "low_time"
    /\ ~Running
    /\ result' = best_move[LOW_TIME_DEPTH]
    /\ pc' = "done"
    /\ UNCHANGED <<game, turn, white_clock, black_clock, now, start_time,
                   best_eval, depth_time, best_move, base_time_left, depth,
                   timer_for_depth, board, stack, ret, last_return, aborted,
                   pushes, root_calls>>
    /\ UNCHANGED idleVars

\* lines 414-425, and 436 when the loop is over
ForDepth ==
    /\ pc = "for"
    /\ IF depth > maxdepth
       THEN /\ result' = best_move[maxdepth]
            /\ pc' = "done"
            /\ UNCHANGED <<timer_for_depth, stack, aborted, root_calls>>
       ELSE IF NotWorthIt(base_time_left,
                          get_c_time_left(turn, white_clock, black_clock),
                          PyGet(depth_time, depth - 1),
                          Len(legal_moves(board)))
       THEN /\ result' = PyGet(best_move, depth - 1)
            /\ pc' = "done"
            /\ UNCHANGED <<timer_for_depth, stack, aborted, root_calls>>
       ELSE /\ timer_for_depth' = now
            /\ RootCall(depth, MoveBudget(base_time_left))
            /\ pc' = "searching"
            /\ UNCHANGED result
    /\ UNCHANGED <<game, turn, white_clock, black_clock, now, start_time,
                   best_eval, depth_time, best_move, base_time_left, depth,
                   board, ret, last_return, pushes>>
    /\ UNCHANGED idleVars

\* line 426
RecordDepthTime ==
    /\ pc = "searching"
    /\ ~Running
    /\ depth_time' = [depth_time EXCEPT ![depth] = now - timer_for_depth]
    /\ pc' = "budget"
    /\ UNCHANGED <<game, turn, white_clock, black_clock, now, start_time,
                   best_eval, best_move, base_time_left, depth,
                   timer_for_depth, result, board, stack, ret, last_return,
                   aborted, pushes, root_calls>>
    /\ UNCHANGED idleVars

\* the loop going on two depths further
BudgetCheckSkipsDepth ==
    /\ pc = "budget"
    /\ IF TimeUp(now - start_time, MoveBudget(base_time_left))
       THEN /\ result' = PyGet(best_move, depth - 1)
            /\ pc' = "done"
            /\ UNCHANGED depth
       ELSE /\ depth' = depth + 2
            /\ pc' = "for"
            /\ UNCHANGED result
    /\ UNCHANGED <<game, turn, white_clock, black_clock, now, start_time,
                   best_eval, depth_time, best_move, base_time_left,
                   timer_for_depth, board, stack, ret, last_return, aborted,
                   pushes, root_calls>>
    /\ UNCHANGED idleVars

\* the budget check handing back the record of the depth just searched
BudgetCheckReturnsCurrent ==
    /\ pc = "budget"
    /\ IF TimeUp(now - start_time, MoveBudget(base_time_left))
       THEN /\ result' = best_move[depth]
            /\ pc' = "done"
            /\ UNCHANGED depth
       ELSE /\ depth' = depth + 1
            /\ pc' = "for"
            /\ UNCHANGED result
    /\ UNCHANGED <<game, turn, white_clock, black_clock, now, start_time,
                   best_eval, depth_time, best_move, base_time_left,
                   timer_for_depth, board, stack, ret, last_return, aborted,
                   pushes, root_calls>>
    /\ UNCHANGED idleVars

\* lines 428-432
BudgetCheck ==
    /\ pc = "budget"
    /\ IF TimeUp(now - start_time, MoveBudget(base_time_left))
       THEN /\ result' = PyGet(best_move, depth - 1)
            /\ pc' = "done"
            /\ UNCHANGED depth
       ELSE /\ depth' = depth + 1
            /\ pc' = "for"
            /\ UNCHANGED result
    /\ UNCHANGED <<game, turn, white_clock, black_clock, now, start_time,
                   best_eval, depth_time, best_move, base_time_left,
                   timer_for_depth, board, stack, ret, last_return, aborted,
                   pushes, root_calls>>
    /\ UNCHANGED idleVars

-----------------------------------------------------------------------------
(* ab_search, lines 340-378 *)

driverVars == <<game, turn, white_clock, black_clock, pc, now, start_time,
                depth_time, base_time_left, depth, timer_for_depth, result>>

\* the bounds negated but not swapped
ChildWindowNotSwapped(alpha, beta) == [alpha |-> -alpha, beta |-> -beta]
\* the window of the recursive call, lines 369 and 389: -beta, -alpha
ChildWindow(alpha, beta) == [alpha |-> -beta, beta |-> -alpha]

\* lines 345-349: the horizon, move generation, the node without moves
ABEntry ==
    /\ Running /\ Top.fn = "ab" /\ Top.pc = "entry"
    /\ IF Top.d = Top.md
       THEN /\ stack' = Append(SetTop([Top EXCEPT !.pc = "tail"]),
                               Frame("q", 0, 0, Top.alpha, Top.beta, NoLimit))
            /\ UNCHANGED <<ret, last_return>>
       ELSE LET moves == gen_moves_at(board)
            IN IF Len(moves) = 0
              THEN Return(scoreEnd(is_check(board), Top.d), "end", board)
              ELSE /\ stack' = SetTop([Top EXCEPT !.pc = "loop",
                                                  !.moves = moves, !.i = 1])
                   /\ UNCHANGED <<ret, last_return>>
    /\ UNCHANGED <<driverVars, best_eval, best_move, board, aborted, pushes,
                   root_calls>>
    /\ UNCHANGED idleVars

\* line 346: return what quiescence_search returned
ABTail ==
    /\ Running /\ Top.fn = "ab" /\ Top.pc = "tail"
    /\ Return(ret, "horizon", board)
    /\ UNCHANGED <<driverVars, best_eval, best_move, board, aborted, pushes,
                   root_calls>>
    /\ UNCHANGED idleVars

\* lines 358-369: the next move of the loop: the time check, push, recurse
ABLoop ==
    /\ Running /\ Top.fn = "ab" /\ Top.pc = "loop"
    /\ IF Top.i > Len(Top.moves)
       THEN /\ Return(Top.alpha, "alpha", board)
            /\ UNCHANGED <<board, aborted, pushes>>
       ELSE IF TimeUp(now - start_time, Top.time_lim)
       THEN /\ Return(Top.alpha, "break", board)
            /\ aborted' = TRUE
            /\ UNCHANGED <<board, pushes>>
       ELSE /\ board' = Append(board, Top.moves[Top.i])
            /\ pushes' = pushes + 1
            /\ stack' = Append(SetTop([Top EXCEPT !.pc = "wait"]),
                               [Frame("ab", Top.d + 1, Top.md,
                                      ChildWindow(Top.alpha, Top.beta).alpha,
                                      ChildWindow(Top.alpha, Top.beta).beta,
                                      Top.time_lim)
                                   EXCEPT !.entry = board',
                                          !.pushes0 = pushes'])
            /\ UNCHANGED <<ret, last_return, aborted>>
    /\ UNCHANGED <<driverVars, best_eval, best_move, root_calls>>
    /\ UNCHANGED idleVars

\* a call that returns without undoing its move
PopMissing(b) == b
\* board.pop()
Pop(b) == SubSeq(b, 1, Len(b) - 1)

\* every ply recording its improving move in the record of the depth
ABAfterRecordsEveryPly ==
    /\ Running /\ Top.fn = "ab" /\ Top.pc = "wait"
    /\ LET val == -ret
           mv == Top.moves[Top.i]
       IN  /\ board' = Pop(board)
           /\ IF val >= Top.beta
              THEN /\ Return(Top.beta, "cutoff", Pop(board))
                   /\ UNCHANGED <<best_move, best_eval>>
              ELSE
                /\ stack' = SetTop([Top EXCEPT
                                      !.pc = "loop", !.i = Top.i + 1,
                                      !.alpha = IF val > Top.alpha THEN val
                                                ELSE Top.alpha])
                /\ IF val > Top.alpha
                   THEN /\ best_move' = [best_move EXCEPT ![Top.md] = mv]
                        /\ best_eval' = [best_eval EXCEPT ![Top.md] = val]
                   ELSE UNCHANGED <<best_move, best_eval>>
                /\ UNCHANGED <<ret, last_return>>
    /\ UNCHANGED <<driverVars, aborted, pushes, root_calls>>
    /\ UNCHANGED idleVars

\* lines 370-377: pop, the cutoff, the new alpha and the record at the root
ABAfter ==
    /\ Running /\ Top.fn = "ab" /\ Top.pc = "wait"
    /\ LET val == -ret
           mv == Top.moves[Top.i]
       IN  /\ board' = Pop(board)
           /\ IF val >= Top.beta
              THEN /\ Return(Top.beta, "cutoff", Pop(board))
                   /\ UNCHANGED <<best_move, best_eval>>
              ELSE
                /\ stack' = SetTop([Top EXCEPT
                                      !.pc = "loop", !.i = Top.i + 1,
                                      !.alpha = IF val > Top.alpha THEN val
                                                ELSE Top.alpha])
                /\ IF val > Top.alpha /\ Top.d = 0
                   THEN /\ best_move' = [best_move EXCEPT ![Top.md] = mv]
                        /\ best_eval' = [best_eval EXCEPT ![Top.md] = val]
                   ELSE UNCHANGED <<best_move, best_eval>>
                /\ UNCHANGED <<ret, last_return>>
    /\ UNCHANGED <<driverVars, aborted, pushes, root_calls>>
    /\ UNCHANGED idleVars

-----------------------------------------------------------------------------
(* quiescence_search, lines 381-395 *)

\* what quiescence_search returns when standpat >= beta
StandPatCutoff(standpat, beta) == beta
\* stand pat that does not raise alpha
StandPatAlphaKept(standpat, alpha) == alpha
\* alpha after lines 385-386
StandPatAlpha(standpat, alpha) == IF alpha < standpat THEN standpat ELSE alpha

\* lines 382-387: stand pat, then the capture list
QEntry ==
    /\ Running /\ Top.fn = "q" /\ Top.pc = "entry"
    /\ LET standpat == eval_at(board)
       IN  IF standpat >= Top.beta
           THEN Return(StandPatCutoff(standpat, Top.beta), "standpat", board)
           ELSE /\ stack' = SetTop([Top EXCEPT
                                      !.pc = "loop",
                                      !.alpha = StandPatAlpha(standpat, Top.alpha),
                                      !.moves = gen_moves_q(board), !.i = 1])
                /\ UNCHANGED <<ret, last_return>>
    /\ UNCHANGED <<driverVars, best_eval, best_move, board, aborted, pushes,
                   root_calls>>
    /\ UNCHANGED idleVars

\* lines 387-389: the next capture: push, recurse
QLoop ==
    /\ Running /\ Top.fn = "q" /\ Top.pc = "loop"
    /\ IF Top.i > Len(Top.moves)
       THEN /\ Return(Top.alpha, "alpha", board)
            /\ UNCHANGED <<board, pushes>>
       ELSE /\ board' = Append(board, Top.moves[Top.i])
            /\ pushes' = pushes + 1
            /\ stack' = Append(SetTop([Top EXCEPT !.pc = "wait"]),
                               [Frame("q", 0, 0,
                                      ChildWindow(Top.alpha, Top.beta).alpha,
                                      ChildWindow(Top.alpha, Top.beta).beta,
                                      NoLimit)
                                   EXCEPT !.entry = board',
                                          !.pushes0 = pushes'])
            /\ UNCHANGED <<ret, last_return>>
    /\ UNCHANGED <<driverVars, best_eval, best_move, aborted, root_calls>>
    /\ UNCHANGED idleVars

\* lines 390-394
QAfter ==
    /\ Running /\ Top.fn = "q" /\ Top.pc = "wait"
    /\ LET val == -ret
       IN  /\ board' = Pop(board)
           /\ IF val >= Top.beta
              THEN Return(Top.beta, "cutoff", Pop(board))
              ELSE
                /\ stack' = SetTop([Top EXCEPT
                                      !.pc = "loop", !.i = Top.i + 1,
                                      !.alpha = IF val > Top.alpha THEN val
                                                ELSE Top.alpha])
                /\ UNCHANGED <<ret, last_return>>
    /\ UNCHANGED <<driverVars, best_eval, best_move, aborted, pushes,
                   root_calls>>
    /\ UNCHANGED idleVars

-----------------------------------------------------------------------------

Next ==
    \/ Tick
    \/ Start
    \/ ChooseMode
    \/ LowTimeReturn
    \/ ForDepth
    \/ RecordDepthTime
    \/ BudgetCheck
    \/ ABEntry
    \/ ABTail
    \/ ABLoop
    \/ ABAfter
    \/ QEntry
    \/ QLoop
    \/ QAfter

Spec == Init /\ [][Next]_vars

-----------------------------------------------------------------------------
(* Properties of the search *)

Max(S) == CHOOSE x \in S : \A y \in S : x >= y
RootMoves == 1..game.nmoves[RootNode]
RootReturned == last_return.fn = "ab" /\ last_return.d = 0
\* the root moves after which the opponent has no legal move and is in check
MatingMoves == {m \in RootMoves : game.nmoves[<<m>>] = 0 /\ game.check}
\* search took the low-time branch of line 409
LowTimeMode == base_time_left # None /\ base_time_left <= 5
NoCaptures(n) == \A m \in 1..game.nmoves[n] : ~game.capture[Append(n, m)]

\* C1: when a call of ab_search or quiescence_search has returned (at the end
\* of its loop, on a beta cutoff, on the time check, at a node without moves,
\* on stand pat), the board is the position the call was entered with, and
\* when no call is running the board is the root position.
C1_BoardRestored ==
    /\ last_return.fn # "none" => last_return.exit = last_return.entry
    /\ ~Running => board = RootNode

\* a call below the root left its loop on the time check, a move deep
C1_Witness ==
    /\ last_return.fn = "ab" /\ last_return.how = "break"
    /\ last_return.d = 1 /\ last_return.pushed > 0
    /\ last_return.exit = <<2>>

\* C2: when the root has a legal move, the move search returns is a legal
\* move of the root, never the null move.
C2_ReturnsLegalMove ==
    (pc = "done" /\ RootMoves # {}) => result \in RootMoves

\* the value of the tree without pruning: quiescence below the horizon ...
RECURSIVE QuiesceValue(_)
QuiesceValue(n) ==
    Max({eval_at(n)} \cup
        {-QuiesceValue(Append(n, m)) :
            m \in {k \in 1..game.nmoves[n] : game.capture[Append(n, k)]}})

\* ... and negamax above it
RECURSIVE Negamax(_, _)
Negamax(n, md) ==
    IF Len(n) = md THEN QuiesceValue(n)
    ELSE IF game.nmoves[n] = 0
         THEN (IF game.check THEN -MATE_VALUE + Len(n) ELSE 0)
         ELSE Max({-Negamax(Append(n, m), md) : m \in 1..game.nmoves[n]})

\* C3: a root search that was not cut short by the time check returns the
\* value of the unpruned negamax of the same tree.
C3_AlphaBetaIsNegamax ==
    (RootReturned /\ ~last_return.aborted)
        => last_return.value = Negamax(RootNode, last_return.md)

\* a root search of depth 2 finished in which a call at ply 1 was cut off
C3_Witness ==
    /\ RootReturned /\ ~last_return.aborted /\ last_return.md = 2
    /\ game.nmoves[<<1>>] = 2 /\ game.nmoves[<<2>>] = 2
    /\ last_return.pushed < 6
    /\ last_return.value = Negamax(RootNode, 2)

\* C4: after a root search of depth md >= 1 that was not cut short, on a
\* position with a mate in one, the move recorded for md is a mating move.
C4_MateInOneFound ==
    (RootReturned /\ ~last_return.aborted /\ last_return.md >= 1
        /\ MatingMoves # {})
        => best_move[last_return.md] \in MatingMoves

\* C5: in the low-time mode search makes one root search, of depth 2, the
\* time check never fires, and the move returned is the record of depth 2,
\* a legal move when the root has one.
C5_LowTimeDepthTwo ==
    (LowTimeMode /\ pc \in {"low_time", "done"}) =>
        /\ root_calls = <<2>>
        /\ ~aborted /\ ~last_return.aborted
        /\ pc = "done" =>
             /\ result = best_move[2]
             /\ RootMoves # {} => result \in RootMoves

\* the low-time search has returned a legal move of a root with two moves
C5_Witness ==
    /\ LowTimeMode /\ pc = "done"
    /\ game.nmoves[RootNode] = 2 /\ result \in RootMoves
    /\ root_calls = <<2>>

\* C6: for a clock of the side to move that is set, the mode is chosen from
\* that clock alone: low-time mode exactly when it is at most 5 seconds (0
\* included), and choosing never faults.
C6_ModeFromOwnClock ==
    LET own == IF turn THEN white_clock ELSE black_clock
    IN  (pc \notin {"start", "mode"} /\ own # None) =>
            /\ pc # "fault"
            /\ LowTimeMode <=> own <= 5

\* C7: a call at a node without legal moves above the horizon returns
\* -MATE_VALUE + ply when the side to move is in check and 0 otherwise; seen
\* from the parent (negated) such a mate score is higher than the score of a
\* mate at any later ply and higher than every evaluation in the tree, and a
\* root search of depth >= 2 on a position with a mate in one returns
\* MATE_VALUE - 1.
C7_TerminalScore ==
    /\ last_return.how = "end" =>
         /\ last_return.d < last_return.md
         /\ game.nmoves[last_return.entry] = 0
         /\ last_return.value =
              IF game.check THEN -MATE_VALUE + last_return.d ELSE 0
         /\ game.check =>
              /\ \A q \in (last_return.d + 1)..maxdepth :
                   -last_return.value > -scoreEnd(TRUE, q)
              /\ \A n \in Nodes : /\ -last_return.value > eval_at(n)
                                  /\ -last_return.value > -eval_at(n)
    /\ (RootReturned /\ ~last_return.aborted /\ last_return.md >= 2
            /\ MatingMoves # {})
         => last_return.value = MATE_VALUE - 1

\* a call at ply 1 returned the mate score
C7_Witness ==
    /\ last_return.how = "end" /\ last_return.d = 1 /\ last_return.md = 2
    /\ last_return.value = -MATE_VALUE + 1

\* C8 as stated: on a position without captures quiescence_search returns
\* exactly eval(), whatever the window, and pushes no move.
C8_QuietReturnsEval ==
    (last_return.fn = "q" /\ NoCaptures(last_return.entry)) =>
        /\ last_return.value = eval_at(last_return.entry)
        /\ last_return.pushed = 0

\* C8 as amended: on a position without captures quiescence_search pushes no
\* move and returns eval() brought into the window: beta when eval() >= beta,
\* alpha when eval() <= alpha, and eval() itself in between.
C8_QuietReturnsClampedEval ==
    (last_return.fn = "q" /\ NoCaptures(last_return.entry)) =>
        LET e == eval_at(last_return.entry)
        IN  /\ last_return.pushed = 0
            /\ last_return.value =
                 IF e >= last_return.beta THEN last_return.beta
                 ELSE IF e <= last_return.alpha THEN last_return.alpha
                 ELSE e

\* a quiet position was evaluated inside a narrowed window
C8_Witness ==
    /\ last_return.fn = "q" /\ NoCaptures(last_return.entry)
    /\ last_return.alpha > NEG_MAX
    /\ last_return.alpha < eval_at(last_return.entry)
    /\ eval_at(last_return.entry) < last_return.beta
    /\ last_return.value = eval_at(last_return.entry)

\* search took the loop of lines 414-432
NormalMode == base_time_left # None /\ base_time_left > LOW_TIME
\* the elapsed time of the move decision has reached the per-move budget
BudgetReached ==
    (now - start_time) * EXPECTED_MOVES_NUM
        >= base_time_left * EXPECTED_MOVES_DEN

\* C11: in the normal mode, when the time check fired in the root search of
\* depth d, the budget is reached, the loop goes on to no further depth, and
\* the move returned is the record of depth d - 1 (d >= 1); a depth is left
\* behind for the next one only when its search was not cut short.
C11_AbortReturnsPrevious ==
    NormalMode =>
        /\ (aborted /\ pc \in {"searching", "budget", "done"}) =>
             /\ BudgetReached
             /\ depth >= 1
             /\ root_calls[Len(root_calls)] = depth
        /\ (aborted /\ pc = "done") => result = best_move[depth - 1]
        /\ pc = "for" => ~aborted
        /\ (pc = "done" /\ depth >= 1 /\ depth <= maxdepth) =>
             result = best_move[depth - 1]

\* the depth 2 search was cut short after it had recorded a move other than
\* the one of depth 1, and the move of depth 1 was returned
C11_Witness ==
    /\ NormalMode /\ pc = "done" /\ aborted /\ depth = 2
    /\ best_move[2] # NullMove /\ best_move[2] # best_move[1]
    /\ result = best_move[1]

\* (per-move budget - elapsed) < dt * sqrt(nmoves), both sides multiplied
\* by EXPECTED_MOVES_NUM and squared
RemainingTooShort(elapsed, dt, nmoves) ==
    LET lhs == base_time_left * EXPECTED_MOVES_DEN
               - elapsed * EXPECTED_MOVES_NUM
        rhs == dt * EXPECTED_MOVES_NUM
    IN  IF lhs < 0 THEN rhs >= 0
        ELSE lhs * lhs < rhs * rhs * nmoves

\* C12: in the normal mode depth d is searched only when the budget less the
\* time elapsed so far is not below the duration of depth d - 1 times the
\* square root of the number of legal root moves, and search returns ahead
\* of a depth with the budget not yet reached only when it is below.
C12_AffordabilityUsesRemaining ==
    NormalMode =>
        /\ pc = "searching" =>
             ~RemainingTooShort(timer_for_depth - start_time,
                                PyGet(depth_time, depth - 1),
                                game.nmoves[RootNode])
        /\ (pc = "done" /\ ~BudgetReached /\ depth <= maxdepth) =>
             RemainingTooShort(now - start_time,
                               PyGet(depth_time, depth - 1),
                               game.nmoves[RootNode])

\* the elapsed time has reached the time limit frame f was called with
LimitReached(f) ==
    (now - start_time) * f.time_lim.den >= f.time_lim.num

\* C13: once the elapsed time has reached the time limit, a frame of
\* ab_search, at any ply, pushes no move: at its next turn in the move loop
\* with a move left it returns its current alpha and leaves the board alone.
\* Only a frame of quiescence_search pushes a move after that.
C13_CooperativeAbort ==
    [][ /\ (Running /\ pushes' # pushes /\ LimitReached(Top))
             => Top.fn = "q"
        /\ (Running /\ Top.fn = "ab" /\ Top.pc = "loop"
              /\ Top.i <= Len(Top.moves) /\ LimitReached(Top)
              /\ stack' # stack)
             => /\ stack' = SubSeq(stack, 1, Len(stack) - 1)
                /\ ret' = Top.alpha
                /\ board' = board
                /\ pushes' = pushes
                /\ aborted'
      ]_vars

\* the limit is reached while quiescence_search, called at the horizon a ply
\* below the root, has pushed a capture and has another one left to push
C13_Witness ==
    /\ NormalMode /\ BudgetReached
    /\ Len(stack) = 3
    /\ stack[1].fn = "ab" /\ stack[1].pc = "wait"
    /\ stack[2].fn = "ab" /\ stack[2].pc = "tail"
    /\ Top.fn = "q" /\ Top.pc = "loop" /\ Top.i = 2 /\ Len(Top.moves) = 2

\* C14: the records change only in a step of the ply-0 frame of a root
\* search of depth md whose move came back with a value above alpha, and
\* then only at index md, to that move and value; and when a root search of
\* depth md >= 1 on a root with a legal move has returned without the time
\* check having fired, best_move[md] is a legal root move and best_eval[md]
\* is the value returned.
C14_RecordOfDepth ==
    [][ /\ (best_move' # best_move \/ best_eval' # best_eval) =>
             /\ Running /\ Top.fn = "ab" /\ Top.d = 0 /\ Top.pc = "wait"
             /\ -ret > Top.alpha /\ -ret < Top.beta
             /\ Top.md = root_calls[Len(root_calls)]
             /\ best_move' = [best_move EXCEPT ![Top.md] = Top.moves[Top.i]]
             /\ best_eval' = [best_eval EXCEPT ![Top.md] = -ret]
        /\ (RootReturned' /\ ~last_return'.aborted /\ last_return'.md >= 1
              /\ RootMoves # {})
             => /\ best_move'[last_return'.md] \in RootMoves
                /\ best_eval'[last_return'.md] = last_return'.value
      ]_vars

\* the depth 2 search has returned with a record that its second root move
\* improved, the records of the depths before it in place
C14_Witness ==
    /\ RootReturned /\ ~last_return.aborted /\ last_return.md = 2
    /\ best_move[2] = 2 /\ gen_moves_at(RootNode) = <<1, 2>>
    /\ best_eval[2] = last_return.value
    /\ best_move[1] # NullMove /\ best_eval[1] # best_eval[2]
    /\ best_move[0] = NullMove

\* C15: in the normal mode the root searches made so far are those of the
\* depths 0, 1, 2, ... in this order, each once, up to the depth the loop is
\* at, never more than maxdepth + 1 of them; and when the loop has run out,
\* all maxdepth + 1 were made and the move returned is the record of depth
\* maxdepth.
C15_DepthsInOrder ==
    NormalMode =>
        /\ Len(root_calls) <= maxdepth + 1
        /\ \A i \in 1..Len(root_calls) : root_calls[i] = i - 1
        /\ pc \in {"searching", "budget"} => Len(root_calls) = depth + 1
        /\ pc = "for" => Len(root_calls) = depth
        /\ (pc = "done" /\ depth > maxdepth) =>
             /\ Len(root_calls) = maxdepth + 1
             /\ result = best_move[maxdepth]

\* the loop ran through every depth and the record of the last one, a legal
\* move, was returned
C15_Witness ==
    /\ NormalMode /\ pc = "done" /\ depth > maxdepth
    /\ Len(root_calls) = maxdepth + 1
    /\ game.nmoves[RootNode] = 2 /\ now = 1
    /\ result = best_move[maxdepth] /\ result \in RootMoves

-----------------------------------------------------------------------------
(* search called on a position without legal moves *)

InitNoMoves == Init /\ game.nmoves[RootNode] = 0

\* the steps of search; the steps of the move loops (ABLoop, ABAfter, QAfter)
\* have no frame to act on, which C17_NoMovesFinishes states
StepNoMoves ==
    \/ Start
    \/ ChooseMode
    \/ LowTimeReturn
    \/ ForDepth
    \/ RecordDepthTime
    \/ BudgetCheck
    \/ ABEntry
    \/ ABTail
    \/ QEntry
    \/ QLoop

NextNoMoves == Tick \/ StepNoMoves

\* search is one thread of control: it always takes its next step
SpecNoMoves == InitNoMoves /\ [][NextNoMoves]_vars /\ WF_vars(StepNoMoves)

\* C17: on a root without legal moves search never faults, never pushes a
\* move (no frame ever has a move to loop over), leaves every record at the
\* null move, and comes to return the null move, in the low-time mode and
\* in the normal mode.
C17_NoMovesFinishes ==
    /\ [](/\ pc # "fault"
          /\ pushes = 0 /\ board = RootNode
          /\ \A i \in 1..Len(stack) :
               /\ stack[i].moves = <<>>
               /\ stack[i].pc # "wait"
               /\ stack[i].fn = "ab" => stack[i].pc # "loop"
          /\ best_move = PyList(NullMove)
          /\ pc \in {"low_time", "for", "searching", "budget", "done"}
               => (LowTimeMode \/ NormalMode)
          /\ pc = "done" => result = NullMove)
    /\ <>(pc = "done")

\* the side to move is checkmated and low on time: the one search of depth 2
\* returned the mate score at the root and the null move was returned
C17_Witness ==
    /\ game.nmoves[RootNode] = 0 /\ game.check
    /\ LowTimeMode /\ pc = "done" /\ root_calls = <<2>>
    /\ last_return.how = "end" /\ last_return.value = -MATE_VALUE
    /\ result = NullMove /\ pushes = 0

-----------------------------------------------------------------------------
(* quiescence_search on positions that know their number of pieces *)

\* the most pieces on the board when quiescence_search is entered
MaxPieces == 4
\* the plies of legal moves the rules engine answers for: more than the
\* captures that MaxPieces pieces allow, so that the legal moves never run
\* out before the captures do
MaxPly == MaxPieces - 1
QNodes == UNION {[1..k -> MoveIds] : k \in 0..MaxPly}

\* The rules of chess, as the rules engine applies them: a capture takes one
\* piece off the board and every other move none, and the two kings are never
\* captured.  Of P pieces at the entry position, with the moves of cap being
\* captures wherever a piece is left to capture, this many are on the board
\* at position n.
RECURSIVE PiecesAfter(_, _, _)
PiecesAfter(P, cap, n) ==
    IF n = <<>> THEN P
    ELSE LET before == PiecesAfter(P, cap, SubSeq(n, 1, Len(n) - 1))
         IN  IF n[Len(n)] \in cap /\ before > 2 THEN before - 1 ELSE before

\* a game of nm legal moves in every position
QGame(P, cap, nm, kv) ==
    [nmoves  |-> [n \in QNodes |-> IF Len(n) < MaxPly THEN nm ELSE 0],
     score   |-> [n \in QNodes |->
                    IF n = <<>> THEN 10 ELSE kv[n[Len(n)]] - 5 * Len(n)],
     capture |-> [n \in QNodes |->
                    /\ n # <<>>
                    /\ PiecesAfter(P, cap, n)
                         < PiecesAfter(P, cap, SubSeq(n, 1, Len(n) - 1))],
     check   |-> FALSE,
     heur    |-> [n \in QNodes |-> 0],
     npieces |-> [n \in QNodes |-> PiecesAfter(P, cap, n)]]

QGames ==
    {QGame(P, cap, nm, kv) :
        P \in 2..MaxPieces, cap \in SUBSET MoveIds, nm \in MoveIds,
        kv \in [MoveIds -> EvalVals]}

\* the depth-0 root search of the normal mode, at its call of
\* quiescence_search (line 346)
InitQ ==
    /\ game \in QGames
    /\ turn \in BOOLEAN
    /\ white_clock = 45 /\ black_clock = 45
    /\ pc = "searching"
    /\ now = 0
    /\ start_time = 0
    /\ best_eval = PyList(0)
    /\ depth_time = PyList(0)
    /\ best_move = PyList(NullMove)
    /\ base_time_left = 45
    /\ depth = 0
    /\ timer_for_depth = 0
    /\ result = NullMove
    /\ board = <<>>
    /\ pushes = 0
    /\ stack = <<[Frame("ab", 0, 0, NEG_MAX, POS_MAX, MoveBudget(45))
                    EXCEPT !.pc = "tail"],
                 Frame("q", 0, 0, NEG_MAX, POS_MAX, NoLimit)>>
    /\ ret = 0
    /\ last_return = NoReturn
    /\ aborted = FALSE
    /\ root_calls = <<0>>
    /\ EvalIdle /\ GenIdle

NextQ ==
    \/ QEntry
    \/ QLoop
    \/ QAfter
    \/ ABTail

\* search is one thread of control: it always takes its next step
SpecQ == InitQ /\ [][NextQ]_vars /\ WF_vars(NextQ)

\* C18: every move quiescence_search pushes is a capture and leaves one piece
\* fewer on the board; so the moves pushed are never more than the pieces at
\* entry less the two kings, though legal moves go on below; and every call
\* comes to return, to the caller of the first one.
C18_QuiescenceTerminates ==
    /\ [][pushes' # pushes =>
            /\ game.capture[board']
            /\ game.npieces[board'] = game.npieces[board] - 1]_vars
    /\ [](/\ Len(board) + game.npieces[board] = game.npieces[RootNode]
          /\ game.npieces[board] >= 2
          /\ Len(board) < MaxPly
          /\ Len(stack) <= game.npieces[RootNode])
    /\ <>[](stack = <<>> /\ board = RootNode)

\* four pieces at entry: two captures deep only the kings are left, and the
\* call made there finds legal moves but no capture to push
C18_Witness ==
    /\ game.npieces[RootNode] = 4
    /\ Len(board) = 2 /\ game.npieces[board] = 2
    /\ game.nmoves[board] = 2
    /\ Running /\ Top.fn = "q" /\ Top.pc = "loop" /\ Top.moves = <<>>

-----------------------------------------------------------------------------
(* The evaluator and the move orderer called on their own *)

\* search is not running
SearchIdle ==
    /\ game = MkGame(<<>>, [n \in Nodes |-> 0], FALSE, FALSE, FALSE, 0)
    /\ white_clock = None
    /\ black_clock = None
    /\ pc = "idle"
    /\ now = 0
    /\ start_time = 0
    /\ best_eval = PyList(0)
    /\ depth_time = PyList(0)
    /\ best_move = PyList(NullMove)
    /\ base_time_left = None
    /\ depth = 0
    /\ timer_for_depth = 0
    /\ result = NullMove
    /\ board = <<>>
    /\ stack = <<>>
    /\ ret = 0
    /\ last_return = NoReturn
    /\ aborted = FALSE
    /\ pushes = 0
    /\ root_calls = <<>>

Place(piece, color, squares) ==
    {[sq |-> i, type |-> piece, color |-> color] : i \in squares}

\* the positions eval is called on: both kings, and for each side a queen, a
\* rook, a minor piece and up to two pawns, present or not
Positions ==
    {[pieces |-> Place(KING, WHITE, {4}) \cup Place(KING, BLACK, {60})
                 \cup Place(QUEEN, WHITE, wq) \cup Place(QUEEN, BLACK, bq)
                 \cup Place(ROOK, WHITE, wr) \cup Place(ROOK, BLACK, br)
                 \cup Place(KNIGHT, WHITE, wn) \cup Place(BISHOP, BLACK, bb)
                 \cup Place(PAWN, WHITE, wp) \cup Place(PAWN, BLACK, bp),
      turn |-> t] :
        wq \in {{}, {17}, {3}}, bq \in {{}, {41}, {59}},
        wr \in {{}, {0}}, br \in {{}, {63}},
        wn \in {{}, {21}}, bb \in {{}, {58}},
        wp \in SUBSET {8, 27}, bp \in SUBSET {48, 35},
        t \in BOOLEAN}

\* the position with the colours swapped, the side to move swapped and every
\* piece on the square f(its square)
Flipped(pos, f(_)) ==
    [pieces |-> {[sq |-> f(x.sq), type |-> x.type, color |-> ~x.color] :
                    x \in pos.pieces},
     turn |-> ~pos.turn]
\* the same file on the opposite rank (a2 and a7): chess.square_mirror
MirrorSquare(i) == 8 * (7 - (i \div 8)) + (i % 8)
\* the opposite file on the opposite rank (a2 and h7)
RotateSquare(i) == 63 - i

InitEval ==
    /\ SearchIdle /\ turn = TRUE
    /\ GenIdle
    /\ position \in Positions
    /\ eval_out = [scores |-> <<>>, flip |-> "none"]

\* self.eval() on the position
Evaluate ==
    /\ Len(eval_out.scores) < 2
    /\ Len(eval_out.scores) = 1 => eval_out.flip # "none"
    /\ eval_out' = [eval_out EXCEPT !.scores = Append(@, eval(position))]
    /\ UNCHANGED <<position, searchVars, genVars>>

\* the evaluated position is replaced by its mirror image
MirrorPosition ==
    /\ Len(eval_out.scores) = 1 /\ eval_out.flip = "none"
    /\ position' = Flipped(position, MirrorSquare)
    /\ eval_out' = [eval_out EXCEPT !.flip = "mirrored"]
    /\ UNCHANGED <<searchVars, genVars>>

\* the evaluated position is replaced by its image under a half turn
RotatePosition ==
    /\ Len(eval_out.scores) = 1 /\ eval_out.flip = "none"
    /\ position' = Flipped(position, RotateSquare)
    /\ eval_out' = [eval_out EXCEPT !.flip = "rotated"]
    /\ UNCHANGED <<searchVars, genVars>>

\* a square of the fifth rank, where no piece of Positions stands, on which
\* a black pawn has the positional value 0
QuietPawnSquare ==
    CHOOSE s \in 32..39 : pawntable[(63 - s) + 1] = 0

\* the evaluated position is replaced by the same position with one more
\* black pawn, on a square of positional value 0
AddBlackPawn ==
    /\ Len(eval_out.scores) = 1 /\ eval_out.flip = "none"
    /\ position' = [position EXCEPT
                      !.pieces = @ \cup Place(PAWN, BLACK, {QuietPawnSquare})]
    /\ eval_out' = [eval_out EXCEPT !.flip = "pawn_added"]
    /\ UNCHANGED <<searchVars, genVars>>

NextEval ==
    \/ Evaluate
    \/ MirrorPosition
    \/ RotatePosition
    \/ AddBlackPawn

SpecEval == InitEval /\ [][NextEval]_vars

\* the longest legal move list
MaxListLen == 3

\* the moves the lists are made of
MovePool ==
    {[from |-> 4, to |-> 6, piece |-> KING, castling |-> TRUE, check |-> FALSE,
      capture |-> FALSE, ep |-> FALSE, captured |-> "none"],
     [from |-> 4, to |-> 5, piece |-> KING, castling |-> FALSE, check |-> FALSE,
      capture |-> FALSE, ep |-> FALSE, captured |-> "none"],
     [from |-> 4, to |-> 12, piece |-> KING, castling |-> FALSE, check |-> FALSE,
      capture |-> TRUE, ep |-> FALSE, captured |-> KNIGHT],
     [from |-> 18, to |-> 35, piece |-> KNIGHT, castling |-> FALSE, check |-> TRUE,
      capture |-> TRUE, ep |-> FALSE, captured |-> QUEEN],
     [from |-> 18, to |-> 33, piece |-> KNIGHT, castling |-> FALSE, check |-> FALSE,
      capture |-> FALSE, ep |-> FALSE, captured |-> "none"],
     [from |-> 36, to |-> 43, piece |-> PAWN, castling |-> FALSE, check |-> FALSE,
      capture |-> TRUE, ep |-> TRUE, captured |-> "none"],
     [from |-> 36, to |-> 45, piece |-> PAWN, castling |-> FALSE, check |-> FALSE,
      capture |-> TRUE, ep |-> FALSE, captured |-> PAWN],
     [from |-> 36, to |-> 44, piece |-> PAWN, castling |-> FALSE, check |-> FALSE,
      capture |-> FALSE, ep |-> FALSE, captured |-> "none"],
     [from |-> 9, to |-> 17, piece |-> ROOK, castling |-> FALSE, check |-> FALSE,
      capture |-> FALSE, ep |-> FALSE, captured |-> "none"],
     [from |-> 9, to |-> 25, piece |-> ROOK, castling |-> FALSE, check |-> FALSE,
      capture |-> FALSE, ep |-> FALSE, captured |-> "none"],
     [from |-> 2, to |-> 20, piece |-> BISHOP, castling |-> FALSE, check |-> FALSE,
      capture |-> TRUE, ep |-> FALSE, captured |-> ROOK],
     [from |-> 3, to |-> 59, piece |-> QUEEN, castling |-> FALSE, check |-> TRUE,
      capture |-> TRUE, ep |-> FALSE, captured |-> BISHOP]}

\* the legal move lists: no move twice
MoveLists ==
    {ml \in UNION {[1..n -> MovePool] : n \in 0..MaxListLen} :
        \A i, j \in 1..Len(ml) : i # j => ml[i] # ml[j]}

InitGen ==
    /\ SearchIdle /\ turn \in BOOLEAN
    /\ EvalIdle
    /\ movelist \in MoveLists
    /\ gen_out = [done |-> FALSE, moves |-> <<>>]

\* self.gen_moves() on the legal move list
GenMoves ==
    /\ ~gen_out.done
    /\ gen_out' = [done |-> TRUE, moves |-> gen_moves(movelist, turn)]
    /\ UNCHANGED <<movelist, searchVars, evalVars>>

NextGen == GenMoves

SpecGen == InitGen /\ [][NextGen]_vars

-----------------------------------------------------------------------------
(* Properties of the evaluator and of the move orderer *)

\* C9 as stated, the position mirrored as chess mirrors a board (each piece
\* on the same file of the opposite rank): the mirrored position with colours
\* and side to move swapped has the value of the original.
C9_MirroredSameEval ==
    (eval_out.flip = "mirrored" /\ Len(eval_out.scores) = 2)
        => eval_out.scores[2] = eval_out.scores[1]

\* C9 as amended: the position with colours and side to move swapped and
\* every piece moved from square s to square 63 - s (the opposite file of the
\* opposite rank, as positionalValue maps the squares of Black) has the value
\* of the original.
C9_RotatedSameEval ==
    (eval_out.flip = "rotated" /\ Len(eval_out.scores) = 2)
        => eval_out.scores[2] = eval_out.scores[1]

\* a position with a queen on b3, two pawns against none and a piece up was
\* turned and evaluated again
C9_Witness ==
    /\ eval_out.flip = "rotated" /\ Len(eval_out.scores) = 2
    /\ [sq |-> 46, type |-> QUEEN, color |-> BLACK] \in position.pieces
    /\ Cardinality(pieces(position, PAWN, BLACK)) = 2
    /\ pieces(position, PAWN, WHITE) = {}
    /\ eval_out.scores[2] = eval_out.scores[1]
    /\ eval_out.scores[1] > 0

\* C16: a position and the same position with one more black pawn, on a
\* square where a pawn has the positional value 0, differ by PAWN_VALUE in
\* the score for the side to move (scores are in half points): lower for
\* White to move, higher for Black to move.
C16_OwnPawnMaterial ==
    (eval_out.flip = "pawn_added" /\ Len(eval_out.scores) = 2) =>
        /\ positionalValue(QuietPawnSquare, PAWN, BLACK, TRUE) = 0
        /\ positionalValue(QuietPawnSquare, PAWN, BLACK, FALSE) = 0
        /\ eval_out.scores[2] - eval_out.scores[1] =
             IF position.turn THEN -2 * PAWN_VALUE ELSE 2 * PAWN_VALUE

Count(seq, m) == Cardinality({i \in 1..Len(seq) : seq[i] = m})

\* C10: what gen_moves returns holds every move of the legal move list once
\* and nothing else.
C10_GenMovesPermutation ==
    gen_out.done =>
        /\ Len(gen_out.moves) = Len(movelist)
        /\ \A m \in MovePool \cup Range(gen_out.moves) :
             Count(gen_out.moves, m) = Count(movelist, m)

\* three moves, two of them with the same heuristic value, came back in
\* another order
C10_Witness ==
    /\ gen_out.done /\ Len(movelist) = 3
    /\ gen_out.moves # movelist
    /\ \E i, j \in 1..3 : i # j /\ heuristic(movelist[i], turn)
                                   = heuristic(movelist[j], turn)
    /\ Range(gen_out.moves) = Range(movelist)

====
